---- MODULE Spec2Model ----
(***************************************************************************)
(* Model of src/src/dakota.py: the identity registry (_USER_DATA), the     *)
(* configuration builder (DakotaInput), the study runner (run_dakota), the *)
(* callback dispatcher (dakota_callback) and the driver base (DakotaBase). *)
(*                                                                         *)
(* Text is modelled as text: lines, keys and files are strings, written    *)
(* and scanned character by character as the code does.                    *)
(***************************************************************************)
EXTENDS Integers, Sequences, FiniteSets, TLC

(***************************************************************************)
(* Bounds.                                                                 *)
(***************************************************************************)
NumDrivers == 2     \* driver objects the application may create
NumAddrs   == 2     \* memory addresses the allocator hands out
NumRanks   == 2     \* processes of the multi-process run

Drivers == 1..NumDrivers
NoData  == 0                       \* Python's None as the data argument
Addrs   == 9..(8 + NumAddrs)       \* id() values: 9, 10, ...
Ranks   == 0..(NumRanks - 1)

(***************************************************************************)
(* Text helpers: str(), the "in" operator on strings, line splitting.      *)
(***************************************************************************)
Digit(n) == SubSeq("0123456789", n + 1, n + 1)

RECURSIVE Str(_)
Str(n) == IF n < 10 THEN Digit(n) ELSE Str(n \div 10) \o Digit(n % 10)

\* the path written to: the default infile of DakotaBase.run_dakota
Paths == {"dakota.in"}

Contains(sub, s) ==
    \E i \in 1..(Len(s) - Len(sub) + 1) : SubSeq(s, i, i + Len(sub) - 1) = sub

StartsWith(s, pre) == Len(s) >= Len(pre) /\ SubSeq(s, 1, Len(pre)) = pre

\* position of the first newline of s, 0 when there is none
RECURSIVE FirstNewline(_, _)
FirstNewline(s, i) ==
    IF i > Len(s) THEN 0
    ELSE IF SubSeq(s, i, i) = "\n" THEN i
    ELSE FirstNewline(s, i + 1)

\* the newline-terminated lines of a text, without their newlines
RECURSIVE SplitLines(_)
SplitLines(s) ==
    IF Len(s) = 0 THEN <<>>
    ELSE LET n == FirstNewline(s, 1)
         IN IF n = 0 THEN <<s>>
            ELSE <<SubSeq(s, 1, n - 1)>> \o SplitLines(SubSeq(s, n + 1, Len(s)))

(***************************************************************************)
(* DakotaInput: the six sections and the keyword overrides.                *)
(***************************************************************************)
Sections == <<"environment", "method", "model", "variables", "interface", "responses">>

DefaultInput ==
    [environment |-> <<"tabular_graphics_data">>,
     method      |-> <<"multidim_parameter_study", "  partitions = 4 4">>,
     model       |-> <<"single">>,
     variables   |-> <<"continuous_design = 2",
                       "  lower_bounds    3    5",
                       "  upper_bounds    4    6",
                       "  descriptors   'x1' 'x2'">>,
     interface   |-> <<"deactivate evaluation_cache",
                       "python",
                       "  numpy",
                       "  analysis_drivers = 'dakota:dakota_callback'">>,
     responses   |-> <<"num_objective_functions = 1",
                       "no_gradients",
                       "no_hessians">>]

\* DakotaInput(**kwargs): the defaults, then setattr(self, key, kwargs[key])
DakotaInput(kwargs) ==
    [key \in DOMAIN DefaultInput \cup DOMAIN kwargs |->
        IF key \in DOMAIN kwargs THEN kwargs[key] ELSE DefaultInput[key]]

\* keyword arguments a caller constructs a DakotaInput with
NoKwargs == [key \in {} |-> <<>>]

KwargsChoices ==
    { NoKwargs,
      \* a manual analysis_components line in the interface section
      [interface |-> <<"python", "analysis_components = 'manual'">>],
      \* the same in the first line, with other sections replaced
      [environment |-> <<>>,
       variables   |-> <<"method">>,
       interface   |-> <<"analysis_components = 'manual'", "python">>],
      \* analysis_components outside the interface section, an empty
      \* section, a line that reads like a section header, an empty line
      [method    |-> <<"sampling", "analysis_components = 'elsewhere'">>,
       model     |-> <<>>,
       responses |-> <<"interface", "">>],
      \* a keyword that is not a section name
      [interface |-> <<"fork">>, comment |-> <<"responses">>] }

(***************************************************************************)
(* State.                                                                  *)
(***************************************************************************)
VARIABLES
    worldRank,   \* comm.Get_rank() of MPI.COMM_WORLD in this process
    haveMPI,     \* _HAVE_MPI
    life,        \* driver -> "unborn" | "live" | "dead"
    addr,        \* driver -> id(driver); a dead driver keeps the one it had
    input,       \* driver -> its self.input (a DakotaInput)
    USER_DATA,   \* _USER_DATA: key -> driver, weakly
    files,       \* path -> <<>> (absent) or <<text>>
    last,        \* the most recent operation: its arguments and outcome
    embedded     \* driver -> a write_input has embedded its key

vars == <<worldRank, haveMPI, life, addr, input, USER_DATA, files, last, embedded>>

env == <<worldRank, haveMPI>>

Live == {d \in Drivers : life[d] = "live"}

\* class of a driver object: the last one is a plain DakotaBase, the
\* others are of a subclass that overrides dakota_callback
IsBase(d) == d = NumDrivers

(***************************************************************************)
(* Exceptions.                                                             *)
(***************************************************************************)
NoExc == [type |-> "None", value |-> ""]

Raise(type, value) == [type |-> type, value |-> value]

getpid == 4000 + worldRank

(***************************************************************************)
(* The identity registry.                                                  *)
(***************************************************************************)
NoRegistry == [k \in {} |-> NoData]

\* a write_input that forgets the registration
SetItem_Dropped(reg, ident, data) == reg

\* _USER_DATA[ident] = data
SetItem(reg, ident, data) ==
    [k \in DOMAIN reg \cup {ident} |-> IF k = ident THEN data ELSE reg[k]]

\* the weak dictionary drops the entries of an object that is reclaimed
Reclaim(reg, d) ==
    [k \in {x \in DOMAIN reg : reg[x] # d} |-> reg[k]]

\* a key taken from the class of the object: the same for every driver
Ident_OfClass(data) == Str(9)

\* str(id(data))
Ident(data) == Str(addr[data])

\* fetch_data(ident): _USER_DATA[ident]
fetch_data(ident, reg) ==
    IF ident \in DOMAIN reg
    THEN [exc |-> NoExc, ret |-> reg[ident]]
    ELSE [exc |-> Raise("KeyError", ident), ret |-> NoData]

(***************************************************************************)
(* DakotaInput.write_input.                                                *)
(***************************************************************************)
\* a writer that does not indent the lines
RECURSIVE WriteLines_NoTab(_, _)
WriteLines_NoTab(lines, out) ==
    IF Len(lines) = 0 THEN out
    ELSE WriteLines_NoTab(Tail(lines), out \o Head(lines) \o "\n")

\* for line in getattr(self, section): out.write("\t%s\n" % line)
RECURSIVE WriteLines(_, _)
WriteLines(lines, out) ==
    IF Len(lines) = 0 THEN out
    ELSE WriteLines(Tail(lines), out \o "\t" \o Head(lines) \o "\n")

\* a scan that looks at the first line only
HasComponents_First(lines) ==
    Len(lines) > 0 /\ Contains("analysis_components", lines[1])

\* the scan of a section for a manual analysis_components
HasComponents(lines) ==
    \E i \in DOMAIN lines : Contains("analysis_components", lines[i])

\* a writer that embeds the identity after the last section
IsIdentitySection_Last(section) == section = "responses"

\* the section after which the identity is embedded
IsIdentitySection(section) == section = "interface"

\* one iteration of the loop over the sections; st is the file text so
\* far, the registry and the exception raised, if any
WriteSection(self, section, data, st) ==
    LET out1 == st.out \o section \o "\n"
        out2 == WriteLines(self[section], out1)
    IN IF IsIdentitySection(section) /\ data # NoData
       THEN IF HasComponents(self[section])
            THEN [out |-> out2, reg |-> st.reg,
                  exc |-> Raise("RuntimeError",
                                "Cannot specify both analysis_components and data")]
            ELSE [out |-> out2 \o "\t  analysis_components = '" \o Ident(data) \o "'\n",
                  reg |-> SetItem(st.reg, Ident(data), data),
                  exc |-> NoExc]
       ELSE [out |-> out2, reg |-> st.reg, exc |-> NoExc]

RECURSIVE WriteFrom(_, _, _, _)
WriteFrom(self, i, data, st) ==
    IF i > Len(Sections) \/ st.exc # NoExc THEN st
    ELSE WriteFrom(self, i + 1, data, WriteSection(self, Sections[i], data, st))

\* write_input(infile, data): the text left in the file, the registry and
\* the exception
write_input(self, data, reg) ==
    WriteFrom(self, 1, data, [out |-> "", reg |-> reg, exc |-> NoExc])

(***************************************************************************)
(* dakota_callback: the dispatcher and the drivers' evaluation methods.    *)
(***************************************************************************)
Keys == {Str(a) : a \in Addrs} \cup {"bogus"}

AcsChoices == {<<>>} \cup {<<k>> : k \in Keys} \cup {<<Str(8 + NumAddrs), "9">>}

\* the request bundles of the engine; the last one has no
\* analysis_components field
Requests ==
    {[analysis_components |-> acs, currEvalId |-> 1] : acs \in AcsChoices}
        \cup {[currEvalId |-> 1]}

NoResponse == [by |-> NoData, got |-> NoKwargs]

\* evaluation methods in which DakotaBase's answers like an overriding one
Evaluate_BaseAnswers(driver, kwargs, fails) ==
    IF fails
    THEN [exc |-> Raise("ValueError", "bad variable bounds"), ret |-> NoResponse]
    ELSE [exc |-> NoExc, ret |-> [by |-> driver, got |-> kwargs]]

\* driver.dakota_callback(**kwargs): DakotaBase's raises; an overriding
\* method answers from the bundle it was given, or raises
Evaluate(driver, kwargs, fails) ==
    IF IsBase(driver)
    THEN [exc |-> Raise("NotImplementedError", "dakota_callback"), ret |-> NoResponse]
    ELSE IF fails
         THEN [exc |-> Raise("ValueError", "bad variable bounds"), ret |-> NoResponse]
         ELSE [exc |-> NoExc, ret |-> [by |-> driver, got |-> kwargs]]

\* a dispatcher that consumes analysis_components before forwarding
Forwarded_Stripped(kwargs) ==
    [k \in DOMAIN kwargs \ {"analysis_components"} |-> kwargs[k]]

\* the bundle handed to the driver: **kwargs
Forwarded(kwargs) == kwargs

\* a dispatcher that takes the last component: acs[-1]
IdentOf_Last(acs) == acs[Len(acs)]

\* the component that names the driver: acs[0]
IdentOf(acs) == acs[1]

\* dakota_callback(**kwargs): exception, result, messages logged and the
\* evaluation methods invoked
dakota_callback(kwargs, fails, reg) ==
    IF "analysis_components" \notin DOMAIN kwargs
    THEN [exc |-> Raise("KeyError", "analysis_components"), ret |-> NoResponse,
          logged |-> <<>>, calls |-> <<>>]
    ELSE LET acs == kwargs["analysis_components"]
         IN IF Len(acs) = 0
            THEN LET msg == "dakota_callback (" \o Str(getpid) \o "): No analysis_components"
                 IN [exc |-> Raise("RuntimeError", msg), ret |-> NoResponse,
                     logged |-> <<msg>>, calls |-> <<>>]
            ELSE LET ident == IdentOf(acs)
                     found == fetch_data(ident, reg)
                 IN IF found.exc.type = "KeyError"
                    THEN LET msg == "dakota_callback (" \o Str(getpid) \o "): ident "
                                        \o ident \o " not found in user data"
                         IN [exc |-> Raise("RuntimeError", msg), ret |-> NoResponse,
                             logged |-> <<msg>>, calls |-> <<>>]
                    ELSE LET r == Evaluate(found.ret, Forwarded(kwargs), fails)
                         IN [exc |-> r.exc, ret |-> r.ret, logged |-> <<>>,
                             calls |-> <<[driver |-> found.ret, kwargs |-> Forwarded(kwargs)]>>]

(***************************************************************************)
(* run_dakota: communicator resolution, the engine call, the status check. *)
(***************************************************************************)
NoComm == [name |-> "None", rank |-> 0 - 1]

\* boost.mpi's world: this process has its world rank in it
World == [name |-> "world", rank |-> worldRank]

\* communicators a caller passes as mpi_comm: none, or one in which this
\* process has the given rank
CommChoices == {NoComm} \cup {[name |-> "split", rank |-> r] : r \in Ranks}

Statuses == {0 - 1, 0, 1}

\* what one call of an engine entry point does: the callbacks it makes
\* (kwargs, and whether the driver's method fails), then it returns err or
\* raises
Behaviours(requests, failing, raising) ==
    {[kwargs |-> k, fails |-> f, raises |-> "None", err |-> e] :
        k \in requests, f \in failing, e \in Statuses}
    \cup {[kwargs |-> k, fails |-> f, raises |-> t, err |-> 0] :
        k \in requests, f \in failing, t \in raising}

\* a resolution that looks at use_mpi before the communicator it is given
Resolve_UseMpiFirst(mpi_comm, use_mpi, boost) ==
    IF haveMPI /\ use_mpi
    THEN IF mpi_comm # NoComm
         THEN [entry |-> "run_dakota_mpi", comm |-> mpi_comm, where |-> "explicit"]
         ELSE IF boost
              THEN [entry |-> "run_dakota_mpi", comm |-> World, where |-> "try"]
              ELSE [entry |-> "run_dakota", comm |-> NoComm, where |-> "except"]
    ELSE [entry |-> "run_dakota", comm |-> NoComm, where |-> "else"]

\* the branch of run_dakota that makes the engine call
Resolve(mpi_comm, use_mpi, boost) ==
    IF mpi_comm = NoComm
    THEN IF haveMPI /\ use_mpi
         THEN IF boost
              THEN [entry |-> "run_dakota_mpi", comm |-> World, where |-> "try"]
              ELSE [entry |-> "run_dakota", comm |-> NoComm, where |-> "except"]
         ELSE [entry |-> "run_dakota", comm |-> NoComm, where |-> "else"]
    ELSE [entry |-> "run_dakota_mpi", comm |-> mpi_comm, where |-> "explicit"]

\* pyDAKOTA.run_dakota / run_dakota_mpi: the engine dispatches its
\* requests to dakota_callback and captures what a callback raises in exc
EngineCall(entry, infile, comm, exc, beh, reg) ==
    LET cbs  == [i \in DOMAIN beh.kwargs |->
                    dakota_callback(beh.kwargs[i], beh.fails, reg)]
        bad  == {i \in DOMAIN cbs : cbs[i].exc # NoExc}
    IN [call |-> [entry |-> entry, infile |-> infile, comm |-> comm],
        cbs |-> cbs,
        exc |-> IF bad = {} THEN exc
                ELSE cbs[CHOOSE i \in bad : \A j \in bad : j <= i].exc,
        raises |-> beh.raises,
        err |-> beh.err]

\* a check that takes only a positive status for a failure
CheckStatus_Positive(err, exc) ==
    IF err > 0
    THEN IF exc.type = "None"
         THEN Raise("RuntimeError", "DAKOTA analysis failed")
         ELSE Raise(exc.type, exc.value)
    ELSE NoExc

\* if err: raise the generic failure, or what the slot holds
CheckStatus(err, exc) ==
    IF err # 0
    THEN IF exc.type = "None"
         THEN Raise("RuntimeError", "DAKOTA analysis failed")
         ELSE Raise(exc.type, exc.value)
    ELSE NoExc

\* an exception of the engine call that the try block catches
Caught(where, raised) == where = "try" /\ raised = "ImportError"

\* run_dakota(infile, mpi_comm, use_mpi): the engine calls made, the
\* callbacks dispatched, the status, the slot and the exception raised;
\* behs[1] is what the first engine call does, behs[2] the second
run_dakota(infile, mpi_comm, use_mpi, boost, behs, reg) ==
    LET r     == Resolve(mpi_comm, use_mpi, boost)
        c1    == EngineCall(r.entry, infile, r.comm, NoExc, behs[1], reg)
        again == Caught(r.where, c1.raises)
        c2    == EngineCall("run_dakota", infile, NoComm, c1.exc, behs[2], reg)
        c     == IF again THEN c2 ELSE c1
    IN [engine   |-> IF again THEN <<c1.call, c2.call>> ELSE <<c1.call>>,
        cbs      |-> IF again THEN c1.cbs \o c2.cbs ELSE c1.cbs,
        returned |-> c.raises = "None",
        status   |-> c.err,
        slot     |-> c.exc,
        exc      |-> IF c.raises # "None" THEN Raise(c.raises, "engine")
                     ELSE CheckStatus(c.err, c.exc)]

(***************************************************************************)
(* Initial state: nothing constructed, nothing written.                    *)
(***************************************************************************)
InitCore ==
    /\ life = [d \in Drivers |-> "unborn"]
    /\ addr = [d \in Drivers |-> 0]
    /\ input = [d \in Drivers |-> DefaultInput]
    /\ USER_DATA = NoRegistry
    /\ files = [p \in Paths |-> <<>>]
    /\ last = [op |-> "init"]
    /\ embedded = [d \in Drivers |-> FALSE]

\* addresses the allocator can give a new object: those of no live object
FreeAddrs == Addrs \ {addr[d] : d \in Live}

(***************************************************************************)
(* Operations.                                                             *)
(***************************************************************************)
\* a constructor that registers the new driver
NewDriver_Registering(d, a) ==
    /\ life[d] = "unborn"
    /\ \A e \in Drivers : e < d => life[e] # "unborn"
    /\ a \in FreeAddrs
    /\ life' = [life EXCEPT ![d] = "live"]
    /\ addr' = [addr EXCEPT ![d] = a]
    /\ input' = [input EXCEPT ![d] = DakotaInput(NoKwargs)]
    /\ USER_DATA' = SetItem(USER_DATA, Str(a), d)
    /\ last' = [op |-> "__init__"]
    /\ UNCHANGED <<env, files, embedded>>

\* DakotaBase.__init__ (or a subclass's): a new driver at a free address,
\* with a default DakotaInput; drivers are numbered in order of creation
NewDriver(d, a) ==
    /\ life[d] = "unborn"
    /\ \A e \in Drivers : e < d => life[e] # "unborn"
    /\ a \in FreeAddrs
    /\ life' = [life EXCEPT ![d] = "live"]
    /\ addr' = [addr EXCEPT ![d] = a]
    /\ input' = [input EXCEPT ![d] = DakotaInput(NoKwargs)]
    /\ last' = [op |-> "__init__"]
    /\ UNCHANGED <<env, USER_DATA, files, embedded>>

\* self.input = DakotaInput(**kwargs)
NewInput(d, kwargs) ==
    /\ d \in Live
    /\ input' = [input EXCEPT ![d] = DakotaInput(kwargs)]
    /\ last' = [op |-> "DakotaInput"]
    /\ UNCHANGED <<env, life, addr, USER_DATA, files, embedded>>

\* the last owning reference to d is released: the object is reclaimed and
\* the weak dictionary drops its entry
Destroy(d) ==
    /\ d \in Live
    /\ life' = [life EXCEPT ![d] = "dead"]
    /\ addr' = [addr EXCEPT ![d] = IF embedded[d] THEN @ ELSE 0]
    /\ input' = [input EXCEPT ![d] = DefaultInput]
    /\ USER_DATA' = Reclaim(USER_DATA, d)
    /\ last' = [op |-> "del"]
    /\ UNCHANGED <<env, files, embedded>>

\* a write_input that removes the file it was writing when it fails
Written_RolledBack(infile, data, r) ==
    /\ files' = [files EXCEPT ![infile] = IF r.exc = NoExc THEN <<r.out>> ELSE <<>>]
    /\ USER_DATA' = r.reg
    /\ embedded' = IF data # NoData /\ r.exc = NoExc
                   THEN [embedded EXCEPT ![data] = TRUE]
                   ELSE embedded

\* the effect of a write_input(infile, data) with outcome r
Written(infile, data, r) ==
    /\ files' = [files EXCEPT ![infile] = <<r.out>>]
    /\ USER_DATA' = r.reg
    /\ embedded' = IF data # NoData /\ r.exc = NoExc
                   THEN [embedded EXCEPT ![data] = TRUE]
                   ELSE embedded

\* the registry holds nothing under the key of data when a call begins
Fresh(data) == data # NoData /\ Ident(data) \notin DOMAIN USER_DATA

\* a write_input that keeps the identity line in self.interface
WriteInput_Appending(b, infile, data) ==
    /\ b \in Live
    /\ data \in Live \cup {NoData}
    /\ LET r == write_input(input[b], data, USER_DATA)
       IN /\ Written(infile, data, r)
          /\ last' = [op |-> "write_input", self |-> b, infile |-> infile,
                      data |-> data, fresh |-> Fresh(data), exc |-> r.exc]
          /\ input' = IF data # NoData /\ r.exc = NoExc
                      THEN [input EXCEPT ![b]["interface"] =
                               Append(@, "  analysis_components = '" \o Ident(data) \o "'")]
                      ELSE input
    /\ UNCHANGED <<env, life, addr>>

\* b.input.write_input(infile, data=data)
WriteInput(b, infile, data) ==
    /\ b \in Live
    /\ data \in Live \cup {NoData}
    /\ LET r == write_input(input[b], data, USER_DATA)
       IN /\ Written(infile, data, r)
          /\ last' = [op |-> "write_input", self |-> b, infile |-> infile,
                      data |-> data, fresh |-> Fresh(data), exc |-> r.exc]
    /\ UNCHANGED <<env, life, addr, input>>

\* a fetch_data that takes the entry out of the registry
FetchData_Popping(ident) ==
    /\ LET r == fetch_data(ident, USER_DATA)
       IN last' = [op |-> "fetch_data", ident |-> ident, exc |-> r.exc, ret |-> r.ret]
    /\ USER_DATA' = [k \in DOMAIN USER_DATA \ {ident} |-> USER_DATA[k]]
    /\ UNCHANGED <<env, life, addr, input, files, embedded>>

\* fetch_data(ident)
FetchData(ident) ==
    /\ LET r == fetch_data(ident, USER_DATA)
       IN last' = [op |-> "fetch_data", ident |-> ident, exc |-> r.exc, ret |-> r.ret]
    /\ UNCHANGED <<env, life, addr, input, USER_DATA, files, embedded>>

\* dakota_callback(**kwargs)
DakotaCallback(kwargs, fails) ==
    /\ LET r == dakota_callback(kwargs, fails, USER_DATA)
       IN last' = [op |-> "dakota_callback", kwargs |-> kwargs, exc |-> r.exc,
                   ret |-> r.ret, logged |-> r.logged, calls |-> r.calls]
    /\ UNCHANGED <<env, life, addr, input, USER_DATA, files, embedded>>

\* what the caller of a run_dakota sees: r is the outcome of the module's
\* run_dakota, when it was called
RunOutcome(op, self, infile, mpi_comm, use_mpi, boost, wrote, r) ==
    [op |-> op, self |-> self, infile |-> infile, mpi_comm |-> mpi_comm,
     use_mpi |-> use_mpi, boost |-> boost, wrote |-> wrote, fresh |-> wrote /\ Fresh(self), engine |-> r.engine, cbs |-> r.cbs,
     returned |-> r.returned, status |-> r.status, slot |-> r.slot, exc |-> r.exc]

\* the outcome of a run_dakota that was not called, or of one left by exc
NotRun(exc) ==
    [engine |-> <<>>, cbs |-> <<>>, returned |-> FALSE, status |-> 0,
     slot |-> NoExc, exc |-> exc]

\* run_dakota(infile, mpi_comm, use_mpi); boost tells whether boost.mpi can
\* be imported
RunDakota(infile, mpi_comm, use_mpi, boost, behs) ==
    /\ last' = RunOutcome("run_dakota", NoData, infile, mpi_comm, use_mpi, boost, FALSE,
                          run_dakota(infile, mpi_comm, use_mpi, boost, behs, USER_DATA))
    /\ UNCHANGED <<env, life, addr, input, USER_DATA, files, embedded>>

\* the process that writes and runs: comm.Get_rank() == 0
Coordinates(mpi_comm) == worldRank = 0

\* a run_dakota that goes on to the engine whatever write_input did
Proceeds_Always(w) == TRUE

\* the statement after write_input is reached when write_input returned
Proceeds(w) == w.exc = NoExc

\* d.run_dakota(infile, mpi_comm, use_mpi)
DriverRunDakota(d, infile, mpi_comm, use_mpi, boost, behs) ==
    /\ d \in Live
    /\ IF Coordinates(mpi_comm)
       THEN LET w == write_input(input[d], d, USER_DATA)
            IN /\ Written(infile, d, w)
               /\ last' = RunOutcome("DakotaBase.run_dakota", d, infile, mpi_comm,
                                     use_mpi, boost, TRUE,
                                     IF Proceeds(w)
                                     THEN run_dakota(infile, mpi_comm, use_mpi,
                                                     boost, behs, w.reg)
                                     ELSE NotRun(w.exc))
       ELSE /\ last' = RunOutcome("DakotaBase.run_dakota", d, infile, mpi_comm,
                                  use_mpi, boost, FALSE, NotRun(NoExc))
            /\ UNCHANGED <<USER_DATA, files, embedded>>
    /\ UNCHANGED <<env, life, addr, input>>

(***************************************************************************)
(* Specifications.                                                         *)
(***************************************************************************)
\* the overrides of the drivers' inputs where the registry is studied:
\* the default interface, or one with a manual analysis_components
ManualKwargs == [interface |-> <<"python", "analysis_components = 'manual'">>]

\* the engine asks for one evaluation with the given key, then succeeds
Evaluation(key) ==
    [kwargs |-> <<[analysis_components |-> <<key>>, currEvalId |-> 1]>>,
     fails |-> FALSE, raises |-> "None", err |-> 0]

\* the engine asks for one evaluation with the first key and succeeds, or
\* it fails without a callback
DriverBehaviours ==
    {Evaluation("9"),
     [kwargs |-> <<>>, fails |-> FALSE, raises |-> "None", err |-> 1]}

\* the registry under construction, destruction, writes, lookups,
\* dispatches and runs of the drivers, in a single-process run; the input
\* of the first driver is the one that gets a manual analysis_components
Init ==
    /\ worldRank = 0
    /\ haveMPI = TRUE
    /\ InitCore

Next ==
    \/ \E d \in Drivers, a \in Addrs : NewDriver(d, a)
    \/ \E kwargs \in {NoKwargs, ManualKwargs} : NewInput(1, kwargs)
    \/ \E d \in Drivers : Destroy(d)
    \/ \E b \in Drivers, infile \in Paths, data \in Drivers \cup {NoData} :
          WriteInput(b, infile, data)
    \/ \E ident \in Keys : FetchData(ident)
    \/ \E kwargs \in Requests, fails \in BOOLEAN : DakotaCallback(kwargs, fails)
    \/ \E d \in Drivers, infile \in Paths, b1 \in {Evaluation("9")} :
          DriverRunDakota(d, infile, NoComm, TRUE, TRUE, <<b1, b1>>)
    \/ \E infile \in Paths, b1 \in {Evaluation("9")} :
          RunDakota(infile, NoComm, TRUE, TRUE, <<b1, b1>>)

Spec == Init /\ [][Next]_vars

\* the configuration builder: the input of the first driver under every
\* override, written with or without any driver as data
NextWriter ==
    \/ \E d \in Drivers, a \in Addrs : NewDriver(d, a)
    \/ \E kwargs \in KwargsChoices : NewInput(1, kwargs)
    \/ \E b \in Drivers, infile \in Paths, data \in Drivers \cup {NoData} :
          WriteInput(b, infile, data)

SpecWriter == Init /\ [][NextWriter]_vars

\* the study runner on every platform and rank, with an engine that
\* returns any status or raises, with or without a failing callback
InitRunner ==
    /\ worldRank \in Ranks
    /\ haveMPI \in BOOLEAN
    /\ InitCore

\* the engine makes no callback, or one without an identity (its
\* analysis_components empty, or missing), then returns or raises
RunnerBehaviours ==
    Behaviours({<<>>,
                <<[analysis_components |-> <<>>, currEvalId |-> 1]>>,
                <<[currEvalId |-> 1]>>},
               {FALSE}, {"ImportError", "TypeError"})

\* what the single-process entry point does when it is called after an
\* ImportError
FallbackBehaviours == Behaviours({<<>>}, {FALSE}, {"ImportError", "TypeError"})

NextRunner ==
    \E infile \in Paths, mpi_comm \in CommChoices, use_mpi \in BOOLEAN, boost \in BOOLEAN,
       b1 \in RunnerBehaviours, b2 \in FallbackBehaviours :
          RunDakota(infile, mpi_comm, use_mpi, boost, <<b1, b2>>)

SpecRunner == InitRunner /\ [][NextRunner]_vars

\* the driver base on every rank of a multi-process run
InitDriver ==
    /\ worldRank \in Ranks
    /\ haveMPI = TRUE
    /\ InitCore

NextDriver ==
    \/ \E d \in Drivers, a \in Addrs : NewDriver(d, a)
    \/ \E d \in Drivers, kwargs \in {NoKwargs, ManualKwargs} : NewInput(d, kwargs)
    \/ \E d \in Drivers : Destroy(d)
    \/ \E d \in Drivers, infile \in Paths, mpi_comm \in CommChoices, b1 \in DriverBehaviours :
          DriverRunDakota(d, infile, mpi_comm, TRUE, TRUE, <<b1, b1>>)

SpecDriver == InitDriver /\ [][NextDriver]_vars

(***************************************************************************)
(* Reading a written file back, as the engine does.                        *)
(***************************************************************************)
\* a line that is not indented opens a section
IsHeader(line) == ~StartsWith(line, "\t")

HeaderLines(lines) == SelectSeq(lines, IsHeader)

\* the lines between the i-th header and the next one
RECURSIVE NthHeader(_, _, _)
NthHeader(lines, n, from) ==
    IF from > Len(lines) THEN Len(lines) + 1
    ELSE IF IsHeader(lines[from])
         THEN IF n = 1 THEN from ELSE NthHeader(lines, n - 1, from + 1)
         ELSE NthHeader(lines, n, from + 1)

SectionBody(lines, n) ==
    SubSeq(lines, NthHeader(lines, n, 1) + 1, NthHeader(lines, n + 1, 1) - 1)

\* the text between the first two quotes of a line
RECURSIVE FirstQuote(_, _)
FirstQuote(s, i) ==
    IF i > Len(s) THEN 0
    ELSE IF SubSeq(s, i, i) = "'" THEN i
    ELSE FirstQuote(s, i + 1)

Quoted(line) ==
    LET a == FirstQuote(line, 1)
        b == FirstQuote(line, a + 1)
    IN IF a = 0 \/ b = 0 THEN "" ELSE SubSeq(line, a + 1, b - 1)

\* the analysis_components lines among some lines
ComponentLines(lines) ==
    SelectSeq(lines, LAMBDA line : Contains("analysis_components", line))

\* the text of the file at a path, and its lines
FileText(path) == IF files[path] = <<>> THEN "" ELSE files[path][1]

FileLines(path) == SplitLines(FileText(path))

\* the lines of the interface section of the file at a path
InterfaceBody(path) == SectionBody(FileLines(path), 5)

\* the key the engine finds in the file: that of the last
\* analysis_components line of the interface section
WrittenKey(path) ==
    LET cl == ComponentLines(InterfaceBody(path))
    IN IF Len(cl) = 0 THEN "" ELSE Quoted(cl[Len(cl)])

\* the keys registered so far, for live or dead drivers
EverKeys == {Str(addr[d]) : d \in {e \in Drivers : embedded[e]}}

\* the most recent operation is a write_input that embedded an identity
WroteIdentity ==
    /\ last.op = "write_input"
    /\ last.data # NoData
    /\ last.exc = NoExc

(***************************************************************************)
(* C1: right after a successful write_input(path, data=D), fetch_data of   *)
(* the key found in the file's analysis_components line returns D itself.  *)
(***************************************************************************)
C1_RoundTrip ==
    WroteIdentity =>
        fetch_data(WrittenKey(last.infile), USER_DATA) = [exc |-> NoExc, ret |-> last.data]

\* a write embedded a driver while another driver is registered too
C1_Witness ==
    /\ WroteIdentity
    /\ \E k \in DOMAIN USER_DATA : USER_DATA[k] # last.data

(***************************************************************************)
(* C2: once a driver whose key was embedded has been destroyed, its key    *)
(* never resolves again: fetch_data raises KeyError and dakota_callback    *)
(* raises RuntimeError, whatever was created and written in between.       *)
(***************************************************************************)
C2_DeadKeyFails ==
    \A d \in Drivers :
        (life[d] = "dead" /\ embedded[d]) =>
            /\ fetch_data(Str(addr[d]), USER_DATA).exc.type = "KeyError"
            /\ dakota_callback([analysis_components |-> <<Str(addr[d])>>, currEvalId |-> 1],
                               FALSE, USER_DATA).exc.type = "RuntimeError"

(***************************************************************************)
(* C3: while a driver whose key was embedded is alive, its key resolves    *)
(* to it, after any other operation; distinct live drivers have distinct   *)
(* keys.                                                                   *)
(***************************************************************************)
C3_LiveKeyResolves ==
    /\ \A d \in Live :
          embedded[d] => fetch_data(Ident(d), USER_DATA) = [exc |-> NoExc, ret |-> d]
    /\ \A d, e \in Live : d # e => Ident(d) # Ident(e)

\* two embedded drivers are alive and the most recent operation is a
\* failing write
C3_Witness ==
    /\ \E d, e \in Live : d # e /\ embedded[d] /\ embedded[e]
    /\ last.op = "write_input" /\ last.exc # NoExc

(***************************************************************************)
(* C5: dakota_callback with empty analysis_components raises the           *)
(* missing-identity error; with a first component that was never           *)
(* registered it raises the unknown-identity error; no evaluation method   *)
(* is invoked in either case.                                              *)
(***************************************************************************)
C5_NoIdentity ==
    (last.op = "dakota_callback" /\ "analysis_components" \in DOMAIN last.kwargs) =>
        LET acs == last.kwargs["analysis_components"]
        IN /\ Len(acs) = 0 =>
                /\ last.exc.type = "RuntimeError"
                /\ Contains("No analysis_components", last.exc.value)
                /\ last.calls = <<>>
           /\ (Len(acs) > 0 /\ acs[1] \notin EverKeys) =>
                /\ last.exc.type = "RuntimeError"
                /\ Contains("ident " \o acs[1] \o " not found in user data", last.exc.value)
                /\ last.calls = <<>>

\* a dispatch named a key never registered, followed by a registered one,
\* while a driver is registered
C5_Witness ==
    /\ last.op = "dakota_callback"
    /\ "analysis_components" \in DOMAIN last.kwargs
    /\ Len(last.kwargs["analysis_components"]) = 2
    /\ last.kwargs["analysis_components"][1] \notin EverKeys
    /\ last.kwargs["analysis_components"][2] \in DOMAIN USER_DATA

\* a dispatch had empty analysis_components while a driver is registered
C5_WitnessEmpty ==
    /\ last.op = "dakota_callback"
    /\ "analysis_components" \in DOMAIN last.kwargs
    /\ Len(last.kwargs["analysis_components"]) = 0
    /\ DOMAIN USER_DATA # {}

(***************************************************************************)
(* C10: a dispatch whose first component is registered invokes the         *)
(* evaluation method of that driver only, once, with the whole bundle, and *)
(* returns its result or raises its exception unchanged.                   *)
(***************************************************************************)
C10_Dispatch ==
    (/\ last.op = "dakota_callback"
     /\ "analysis_components" \in DOMAIN last.kwargs
     /\ Len(last.kwargs["analysis_components"]) > 0
     /\ last.kwargs["analysis_components"][1] \in DOMAIN USER_DATA) =>
        LET d == USER_DATA[last.kwargs["analysis_components"][1]]
        IN /\ last.calls = <<[driver |-> d, kwargs |-> last.kwargs]>>
           /\ \E fails \in BOOLEAN :
                 LET r == Evaluate(d, last.kwargs, fails)
                 IN last.exc = r.exc /\ last.ret = r.ret
           /\ last.logged = <<>>

\* two drivers are registered and a dispatch with two components returned
\* the answer of the first one's driver
C10_Witness ==
    /\ Cardinality(DOMAIN USER_DATA) >= 2
    /\ last.op = "dakota_callback"
    /\ last.exc = NoExc
    /\ Len(last.kwargs["analysis_components"]) = 2
    /\ last.ret.by = USER_DATA[last.kwargs["analysis_components"][1]]
    /\ last.ret.got = last.kwargs

\* two drivers are registered and the driver of a dispatch raised
C10_WitnessRaise ==
    /\ Cardinality(DOMAIN USER_DATA) >= 2
    /\ last.op = "dakota_callback"
    /\ last.exc.type = "ValueError"

\* the error of a write_input that is given both a manual
\* analysis_components and a data object
Conflict == Raise("RuntimeError", "Cannot specify both analysis_components and data")

\* the lines a section of the written file holds for the given lines
Tabbed(lines) == [i \in DOMAIN lines |-> "\t" \o lines[i]]

\* the line that carries a key in the written file
KeyLine(key) == "\t  analysis_components = '" \o key \o "'"

(***************************************************************************)
(* C4: write_input raises the configuration conflict exactly when data is  *)
(* given and a line of the interface section contains analysis_components, *)
(* whatever the other sections hold; it raises nothing else.               *)
(***************************************************************************)
C4_Conflict ==
    last.op = "write_input" =>
        LET interface == input[last.self]["interface"]
            manual == \E i \in DOMAIN interface :
                         Contains("analysis_components", interface[i])
        IN /\ last.exc = Conflict <=> (last.data # NoData /\ manual)
           /\ last.exc \in {NoExc, Conflict}

\* the conflict was raised for an input whose other sections are not the
\* defaults
C4_Witness ==
    /\ last.op = "write_input"
    /\ last.exc = Conflict
    /\ input[last.self]["environment"] = <<>>

\* a write with data succeeded although another section holds
\* analysis_components
C4_WitnessElsewhere ==
    /\ WroteIdentity
    /\ HasComponents(input[last.self]["method"])

(***************************************************************************)
(* C8: a successful write_input leaves a file with exactly the six section *)
(* headers in the fixed order, each followed by the lines of that section  *)
(* of the input, each after one tab, and by nothing else but the identity  *)
(* line that closes the interface section when data is given.              *)
(***************************************************************************)
C8_SixSections ==
    (last.op = "write_input" /\ last.exc = NoExc) =>
        LET lines == FileLines(last.infile)
            self  == input[last.self]
        IN /\ HeaderLines(lines) = Sections
           /\ \A n \in DOMAIN Sections :
                 SectionBody(lines, n) =
                    Tabbed(self[Sections[n]]) \o
                        (IF n = 5 /\ last.data # NoData
                         THEN <<KeyLine(Ident(last.data))>> ELSE <<>>)

\* a file was written from an input with an empty section, a line that
\* reads like a header and an empty line
C8_Witness ==
    /\ last.op = "write_input" /\ last.exc = NoExc
    /\ input[last.self]["model"] = <<>>
    /\ input[last.self]["responses"] = <<"interface", "">>

\* a file was written from an input constructed with a keyword that is
\* not a section name
C8_WitnessKeyword ==
    /\ last.op = "write_input" /\ last.exc = NoExc
    /\ "comment" \in DOMAIN input[last.self]

(***************************************************************************)
(* C9 as claimed: a file written with data holds exactly one               *)
(* analysis_components line.                                               *)
(***************************************************************************)
C9_OneInFile ==
    WroteIdentity => Len(ComponentLines(FileLines(last.infile))) = 1

(***************************************************************************)
(* C9: the interface section of a file written with data holds exactly one *)
(* analysis_components line; it is the last line of that section, after    *)
(* the section's own lines, and carries the key registered for data.  A    *)
(* write without data adds no analysis_components line to the file.        *)
(***************************************************************************)
C9_OneInInterface ==
    /\ WroteIdentity =>
          LET body == InterfaceBody(last.infile)
              cl   == ComponentLines(body)
          IN /\ Len(cl) = 1
             /\ body = Tabbed(input[last.self]["interface"]) \o cl
             /\ HeaderLines(FileLines(last.infile))[6] = "responses"
             /\ fetch_data(Quoted(cl[1]), USER_DATA) = [exc |-> NoExc, ret |-> last.data]
    /\ (last.op = "write_input" /\ last.data = NoData) =>
          LET self == input[last.self]
              own  == [n \in DOMAIN Sections |-> Len(ComponentLines(self[Sections[n]]))]
          IN \A n \in DOMAIN Sections :
                Len(ComponentLines(SectionBody(FileLines(last.infile), n))) = own[n]

\* a file was written with data from an input whose interface section was
\* replaced
C9_Witness ==
    /\ WroteIdentity
    /\ input[last.self]["interface"] = <<"fork">>

\* a file was written without data from an input with a manual
\* analysis_components
C9_WitnessNoData ==
    /\ last.op = "write_input" /\ last.data = NoData
    /\ HasComponents(input[last.self]["interface"])

\* the generic failure of run_dakota
EngineFailure == Raise("RuntimeError", "DAKOTA analysis failed")

(***************************************************************************)
(* C6: when the engine call of run_dakota returns a status, run_dakota     *)
(* raises exactly when the status is not zero: the generic failure when    *)
(* the slot is empty, and otherwise the captured exception, with its type  *)
(* and value.                                                              *)
(***************************************************************************)
C6_StatusCheck ==
    (last.op = "run_dakota" /\ last.returned) =>
        /\ last.exc # NoExc <=> last.status # 0
        /\ (last.status # 0 /\ last.slot.type = "None") => last.exc = EngineFailure
        /\ (last.status # 0 /\ last.slot.type # "None") =>
              /\ last.exc.type = last.slot.type
              /\ last.exc.value = last.slot.value
              /\ last.exc # EngineFailure

\* the engine returned a negative status after capturing a KeyError
C6_Witness ==
    /\ last.op = "run_dakota" /\ last.returned
    /\ last.status < 0
    /\ last.slot.type = "KeyError"
    /\ last.exc.type = "KeyError"

\* the engine returned a failure with an empty slot
C6_WitnessGeneric ==
    /\ last.op = "run_dakota" /\ last.returned
    /\ last.status # 0
    /\ last.exc = EngineFailure

\* the engine returned zero although a callback had failed
C6_WitnessZero ==
    /\ last.op = "run_dakota" /\ last.returned
    /\ last.status = 0
    /\ last.slot.type # "None"
    /\ last.exc = NoExc

(***************************************************************************)
(* C7: a DakotaBase.run_dakota given a communicator in which this process  *)
(* has a nonzero rank writes no file, registers nothing and makes no       *)
(* engine call.                                                            *)
(***************************************************************************)
C7_NonzeroRankIdle ==
    (/\ last.op = "DakotaBase.run_dakota"
     /\ last.mpi_comm # NoComm
     /\ last.mpi_comm.rank # 0) =>
        /\ ~last.wrote
        /\ last.engine = <<>>

\* the engine call under a communicator, and the single-process one
UnderComm(infile, c) == [entry |-> "run_dakota_mpi", infile |-> infile, comm |-> c]

SingleProcess(infile) == [entry |-> "run_dakota", infile |-> infile, comm |-> NoComm]

C11_WitnessWorld ==
    /\ last.op = "run_dakota"
    /\ last.engine[1].comm = World
    /\ worldRank # 0

\* boost.mpi could not be imported on a platform with MPI
C11_WitnessImport ==
    /\ last.op = "run_dakota"
    /\ last.mpi_comm = NoComm /\ haveMPI /\ last.use_mpi /\ ~last.boost
    /\ last.engine = <<SingleProcess(last.infile)>>

\* the error of DakotaBase.dakota_callback
NotImplemented == Raise("NotImplementedError", "dakota_callback")

\* the operations that run the engine
RunOps == {"run_dakota", "DakotaBase.run_dakota"}

(***************************************************************************)
(* C12: DakotaBase.dakota_callback raises NotImplementedError for every    *)
(* request; a dispatch whose first component is registered for a driver    *)
(* that does not override it raises that error and returns no response,    *)
(* called directly or by the engine during a run.                          *)
(***************************************************************************)
C12_BaseRaises ==
    /\ \A kwargs \in Requests, fails \in BOOLEAN :
          Evaluate(NumDrivers, kwargs, fails) = [exc |-> NotImplemented, ret |-> NoResponse]
    /\ (/\ last.op = "dakota_callback"
        /\ "analysis_components" \in DOMAIN last.kwargs
        /\ Len(last.kwargs["analysis_components"]) > 0
        /\ last.kwargs["analysis_components"][1] \in DOMAIN USER_DATA
        /\ IsBase(USER_DATA[last.kwargs["analysis_components"][1]])) =>
            /\ last.exc = NotImplemented
            /\ last.ret = NoResponse
    /\ last.op \in RunOps =>
          \A i \in DOMAIN last.cbs :
             (Len(last.cbs[i].calls) > 0 /\ IsBase(last.cbs[i].calls[1].driver)) =>
                /\ last.cbs[i].exc = NotImplemented
                /\ last.cbs[i].ret = NoResponse
                /\ last.slot.type # "None"

\* a dispatch reached a plain DakotaBase while an overriding driver is
\* registered too
C12_Witness ==
    /\ last.op = "dakota_callback"
    /\ last.exc = NotImplemented
    /\ Len(last.calls) = 1 /\ IsBase(last.calls[1].driver)
    /\ \E k \in DOMAIN USER_DATA : ~IsBase(USER_DATA[k])

\* the engine of a run dispatched to a plain DakotaBase
C12_WitnessEngine ==
    /\ last.op = "DakotaBase.run_dakota"
    /\ Len(last.cbs) = 1
    /\ last.cbs[1].exc = NotImplemented
    /\ last.slot = NotImplemented

\* the message of a dispatch that did not find a key
NotFound(key) == "ident " \o key \o " not found in user data"

(***************************************************************************)
(* C13: in a DakotaBase.run_dakota of the coordinating process, the engine *)
(* is called only when write_input has returned: the file then holds the   *)
(* six sections and the key of the driver, the key is registered for the   *)
(* driver, and every callback of the run that names the key reaches the    *)
(* driver; when write_input raises the configuration conflict, no engine   *)
(* call and no callback is made and the conflict is what the caller gets.  *)
(***************************************************************************)
C13_WriteThenRun ==
    (last.op = "DakotaBase.run_dakota" /\ last.wrote) =>
        LET self  == input[last.self]
            lines == FileLines(last.infile)
            key   == WrittenKey(last.infile)
        IN /\ last.engine # <<>> =>
                /\ HeaderLines(lines) = Sections
                /\ SectionBody(lines, 5) = Tabbed(self["interface"]) \o <<KeyLine(key)>>
                /\ SectionBody(lines, 6) = Tabbed(self["responses"])
                /\ fetch_data(key, USER_DATA) = [exc |-> NoExc, ret |-> last.self]
                /\ \A i \in DOMAIN last.cbs :
                      /\ ~Contains(NotFound(key), last.cbs[i].exc.value)
                      /\ \A j \in DOMAIN last.cbs[i].calls :
                            last.cbs[i].calls[j].kwargs["analysis_components"][1] = key
                                => last.cbs[i].calls[j].driver = last.self
           /\ IF HasComponents(self["interface"])
              THEN last.engine = <<>> /\ last.cbs = <<>> /\ last.exc = Conflict
              ELSE Len(last.engine) = 1

\* the first run of a driver: its key was registered by the write of the
\* run, and the callback of the engine reached it
C13_Witness ==
    /\ last.op = "DakotaBase.run_dakota"
    /\ last.fresh
    /\ Len(last.cbs) = 1 /\ Len(last.cbs[1].calls) = 1
    /\ last.cbs[1].calls[1].driver = last.self

\* write_input raised the conflict in a run while the other driver is
\* registered
C13_WitnessConflict ==
    /\ last.op = "DakotaBase.run_dakota"
    /\ last.wrote /\ last.exc = Conflict
    /\ DOMAIN USER_DATA # {}

(***************************************************************************)
(* C14: every run_dakota makes exactly one call of one engine entry point, *)
(* whether the call returns a status or raises, an ImportError raised by   *)
(* the call under the world communicator included.                         *)
(***************************************************************************)
C14_OneEngineRun ==
    last.op = "run_dakota" => Len(last.engine) = 1

(***************************************************************************)
(* C15: a dakota_callback whose request has no analysis_components field   *)
(* fails like one whose field is empty: it logs the missing-identity       *)
(* message, raises RuntimeError with it and invokes no evaluation method.  *)
(***************************************************************************)
C15_AbsentField ==
    (last.op = "dakota_callback" /\ "analysis_components" \notin DOMAIN last.kwargs) =>
        /\ last.exc.type = "RuntimeError"
        /\ Contains("No analysis_components", last.exc.value)
        /\ last.logged = <<last.exc.value>>
        /\ last.calls = <<>>

(***************************************************************************)
(* C16: a write_input that raises the configuration conflict leaves the    *)
(* file it was writing: it holds the headers of the first five sections in *)
(* order, each followed by the lines of that section of the input after    *)
(* one tab, and nothing else: no line with the key of data and no          *)
(* responses section.                                                      *)
(***************************************************************************)
C16_PartialFile ==
    (last.op = "write_input" /\ last.exc = Conflict) =>
        LET lines == FileLines(last.infile)
            self  == input[last.self]
        IN /\ files[last.infile] # <<>>
           /\ HeaderLines(lines) = SubSeq(Sections, 1, 5)
           /\ \A n \in 1..5 : SectionBody(lines, n) = Tabbed(self[Sections[n]])
           /\ \A i \in DOMAIN lines : lines[i] # KeyLine(Ident(last.data))
           /\ \A i \in DOMAIN lines : lines[i] # "responses"

\* the conflict was raised for an input with an empty section and with a
\* line that reads like a section header, written with another driver as
\* data
C16_Witness ==
    /\ last.op = "write_input" /\ last.exc = Conflict
    /\ last.data # last.self
    /\ input[last.self]["environment"] = <<>>
    /\ input[last.self]["variables"] = <<"method">>
    /\ Len(FileLines(last.infile)) = 11

\* the most recent operation registered a driver: a write_input with data
\* that returned, or the write_input of a DakotaBase.run_dakota
Registered ==
    \/ WroteIdentity
    \/ last.op = "DakotaBase.run_dakota" /\ last.wrote /\ last.engine # <<>>

\* the driver it registered
RegisteredData == IF last.op = "write_input" THEN last.data ELSE last.self

\* the keys under which the registry holds a driver
KeysOf(reg, d) == {k \in DOMAIN reg : reg[k] = d}

(***************************************************************************)
(* C17 as claimed: over any sequence of write_input and                    *)
(* DakotaBase.run_dakota calls the registry receives one registration per  *)
(* driver: a registration is made only for a driver that has none.         *)
(***************************************************************************)
C17_RegisteredOnce ==
    Registered => last.fresh

(***************************************************************************)
(* C17: constructing a DakotaBase or a DakotaInput registers nothing;      *)
(* every write_input with data that returns, called directly or by         *)
(* DakotaBase.run_dakota, registers data under str(id(data)): the first    *)
(* one adds the entry, and every later one for the same driver registers   *)
(* the same key again and leaves the registry as it was, with one entry    *)
(* for the driver.                                                         *)
(***************************************************************************)
C17_RegisteredPerWrite ==
    [][/\ last'.op \in {"__init__", "DakotaInput"} => USER_DATA' = USER_DATA
       /\ Registered' =>
             LET d == RegisteredData'
             IN /\ USER_DATA' = SetItem(USER_DATA, Str(addr[d]), d)
                /\ last'.fresh <=> KeysOf(USER_DATA, d) = {}
                /\ ~last'.fresh => USER_DATA' = USER_DATA
                /\ KeysOf(USER_DATA', d) = {Str(addr[d])}]_vars

\* a driver that was registered already was run again, and registered
\* again, while another driver is registered too
C17_Witness ==
    /\ Registered
    /\ last.op = "DakotaBase.run_dakota"
    /\ ~last.fresh
    /\ Cardinality(DOMAIN USER_DATA) = 2

\* the first registration of a driver, made by a write_input of the input
\* of another driver
C17_WitnessFirst ==
    /\ WroteIdentity
    /\ last.fresh
    /\ last.self # last.data

\* the operations that write an input to a file
WriteOps == {"write_input", "DakotaBase.run_dakota"}

(***************************************************************************)
(* C18: a write_input, called directly or by DakotaBase.run_dakota, leaves *)
(* the sections of every input as they were; it raises the conflict only   *)
(* for an input whose interface section held analysis_components before    *)
(* the call, so a write of an input that was written with data before      *)
(* succeeds again, for the same or another data object; and a write_input  *)
(* repeated with the same input, path and data leaves the same file, the   *)
(* same key in it, the same registry and the same outcome.                 *)
(***************************************************************************)
C18_InputUntouched ==
    [][/\ last'.op \in WriteOps => input' = input
       /\ (last'.op = "write_input" /\ last'.exc # NoExc) =>
             HasComponents(input[last'.self]["interface"])
       /\ (/\ WroteIdentity
           /\ last'.op = "write_input"
           /\ last'.self = last.self) => last'.exc = NoExc
       /\ (/\ last.op = "write_input"
           /\ last'.op = "write_input"
           /\ last'.self = last.self
           /\ last'.infile = last.infile
           /\ last'.data = last.data) =>
             /\ files' = files
             /\ last.data # NoData => Ident(last.data)' = Ident(last.data)
             /\ USER_DATA' = USER_DATA
             /\ last'.exc = last.exc]_vars

\* the only driver there has been wrote its input with itself as data for
\* the second time at least, without a conflict
C18_Witness ==
    /\ WroteIdentity
    /\ last.self = 1 /\ last.data = 1
    /\ ~last.fresh
    /\ life[2] = "unborn"
    /\ WrittenKey(last.infile) = Ident(1)

(***************************************************************************)
(* C19: the registry changes only by a write_input with data that returns  *)
(* (called directly or by DakotaBase.run_dakota), which sets the key of    *)
(* data and no other, or by the reclamation of a destroyed driver, which   *)
(* drops the entries of that driver; fetch_data, dakota_callback, the      *)
(* module's run_dakota with the callbacks of its engine, a write_input     *)
(* without data and a write_input that raises leave it as it was.          *)
(***************************************************************************)
C19_RegistryFrame ==
    [][/\ USER_DATA' # USER_DATA =>
             \/ /\ Registered'
                /\ USER_DATA' = SetItem(USER_DATA, Ident(RegisteredData'), RegisteredData')
             \/ /\ last'.op = "del"
                /\ \E d \in Live : life'[d] = "dead" /\ USER_DATA' = Reclaim(USER_DATA, d)
       /\ last'.op \in {"fetch_data", "dakota_callback", "run_dakota"} =>
             USER_DATA' = USER_DATA
       /\ (last'.op = "write_input" /\ (last'.data = NoData \/ last'.exc # NoExc)) =>
             USER_DATA' = USER_DATA
       /\ (last'.op = "DakotaBase.run_dakota" /\ last'.exc = Conflict) =>
             USER_DATA' = USER_DATA]_vars

\* the engine of a run_dakota dispatched to a driver while two drivers are
\* registered
C19_Witness ==
    /\ last.op = "run_dakota"
    /\ Len(last.cbs) = 1 /\ Len(last.cbs[1].calls) = 1
    /\ Cardinality(DOMAIN USER_DATA) = 2

\* an input was written without data while a driver is registered
C19_WitnessNoData ==
    /\ last.op = "write_input" /\ last.data = NoData
    /\ DOMAIN USER_DATA # {}

\* a lookup failed while a driver is registered
C19_WitnessLookup ==
    /\ last.op = "fetch_data" /\ last.exc.type = "KeyError"
    /\ DOMAIN USER_DATA # {}

====
